---- MODULE Spec2Model ----
(***************************************************************************)
(* Verification model of crypto_news_scrapper:                             *)
(*   - ScrapingCoordinator (src/orchestration/coordinator.py) driving      *)
(*     AsyncNewsDatabase.save_article_batch (src/storage/database.py);     *)
(*   - CircuitBreaker and AsyncHTTPClient.get_with_retry                   *)
(*     (src/utils/http_client.py);                                         *)
(*   - AdaptiveRateLimiter (src/utils/rate_limiter.py).                    *)
(* Spec      : one run_coordinated_scraping over a configuration of        *)
(*             sources.                                                    *)
(* SpecCB    : concurrent callers of CircuitBreaker.call.                  *)
(* SpecFetch : successive get_with_retry calls through the breaker.        *)
(* SpecRate  : record_success / record_failure on one limiter.             *)
(***************************************************************************)
EXTENDS Integers, Sequences, FiniteSets, TLC

\* ------------------------------------------------------------------ bounds
NumSources == 2          \* sources in config['sources']
MaxBatch == 2            \* largest max_articles_per_run (SpecStore)
NumCallers == 3          \* concurrent callers of CircuitBreaker.call
MaxTime == 5             \* last clock value of SpecCB
MaxConcurrent == 2       \* largest max_concurrent_sources configured
MaxRetryAfter == 2       \* largest Retry-After of a 429 response, in seconds
MaxSamples == 10         \* calls recorded on the limiter between adjustments
hash_cache_size == 2     \* ContentFilter.hash_cache_size (10000 in the code)
NumOps == 3              \* concurrent operations on the database
MaxKeywords == 2         \* number of configured crypto_keywords
MaxWords == 3            \* longest article text, in words

\* ------------------------------------------------- configuration values
DefaultPriority == 5
failure_threshold == 3
recovery_timeout == 2
half_open_max_calls == 2
max_retries == 2
base_delay == 1
max_delay == 60
exponential_base == 2
DefaultRetryAfter == 60
min_rate == 10               \* 0.1 requests per second
max_rate == 500              \* 5.0 requests per second
adjustment_interval == 60
MinSample == 10              \* total_requests < 10: no adjustment
TickSeconds == 30            \* granularity of the limiter's clock
min_content_length == 50
max_content_length == 50000
max_connections == 2         \* AsyncNewsDatabase(max_connections=...), default 10
max_tokens == 2              \* TokenBucketRateLimiter(max_tokens, refill_rate)
refill_rate == 1             \* tokens per second
hours_back == 24             \* run_coordinated_scraping(hours_back=24)

Sources == 1..NumSources
Priorities == {1, DefaultPriority}
Names == 1..NumSources       \* source names, compared for equality only
Ids == {1, 2}                \* values of articles.id
Urls == {1, 2}               \* values of articles.url
Writers == {1, 2}            \* the enabled sources of SpecStore
Callers == 1..NumCallers

\* An article as save_article_batch sees it: its two unique keys.
Article == [id : Ids, url : Urls]

RECURSIVE SeqsUpTo(_, _)
SeqsUpTo(S, n) ==
  IF n = 0 THEN {<<>>}
  ELSE LET shorter == SeqsUpTo(S, n - 1)
       IN  shorter \cup {Append(q, x) : q \in {r \in shorter : Len(r) = n - 1}, x \in S}

VARIABLES
  config,        \* config['sources']: per source name, priority, enabled
  max_concurrent_sources,   \* config['max_concurrent_sources']
  cpc,           \* position of run_coordinated_scraping
  cur,           \* priority of the tier being processed (0 before the first)
  pc,            \* per source: position of its task
  semaphore,     \* free permits of the tier's asyncio.Semaphore
  result,        \* per source: value its task returned to gather
  threw,         \* per source: the pipeline step that raised ("none" if none)
  all_results,   \* all_results dict: source name -> result
  total_new_articles,
  todo,          \* per source: articles of its batch not yet inserted
  cnt,           \* per source: new_count/duplicate_count/error_count
  faults,        \* per source: INSERT statements of its batch that raised
  pending,       \* per source: rows inserted in its open transaction
  wlock,         \* SQLite write lock holder (0 = free)
  rows,          \* committed rows of table articles
  cb_state, failure_count, last_failure_time, half_open_calls,
  call_pc,       \* per caller of CircuitBreaker.call: last outcome / "inflight"
  now,           \* time.time()
  consec,        \* failures of wrapped calls since the last success
  fpc,           \* position of get_with_retry
  attempt,       \* loop variable of _get_with_retry_internal
  requests,      \* HTTP requests issued by the current get_with_retry
  last_status,   \* outcome of the latest HTTP request
  retry_after,   \* seconds the latest 429 response asked to wait
  delay,         \* argument of the asyncio.sleep in progress
  slept,         \* seconds elapsed since the latest HTTP request ended
  fret,          \* what get_with_retry gave its caller
  exhausted,     \* consecutive fetches that used up all their attempts
  rate_limit_seconds,   \* source config value the limiter was built from
  current_rate, success_count, rl_failure_count,   \* AdaptiveRateLimiter
  since_adjustment,     \* time.time() - last_adjustment, up to the interval
  rl_op,         \* the latest step of the limiter: a call or a clock tick
  recent_hashes, \* ContentFilter.recent_hashes
  fl_last,       \* the latest is_valid_article call and what it returned
  connection_semaphore,   \* free permits of AsyncNewsDatabase's semaphore
  op_pc,         \* per database operation: its position in get_connection
  open_conns,    \* the operations whose aiosqlite connection is open
  stage,         \* the adapter call of the source task that is under way
  scrape_fetch,  \* what get_with_retry gave the latest scrape_articles
  raw_articles,  \* len(raw_articles) of the latest scrape_articles
  src_result,    \* what _scrape_and_process_source returned after it
  en_last,       \* the latest enrich_article call: its article, its result
  made,          \* the latest two NewsArticle objects and how they were built
  acq_pc,        \* per caller of AdaptiveRateLimiter.acquire: its position
  acq_wake,      \* per caller: when its asyncio.sleep ends
  acq_last,      \* when acquire returned last
  acq_gap,       \* time between the latest two returns of acquire (-1: none)
  tokens, last_refill,   \* TokenBucketRateLimiter
  tb_lock,       \* holder of TokenBucketRateLimiter._lock (0 = free)
  tb_pc,         \* per caller of TokenBucketRateLimiter.acquire: its position
  tb_req,        \* per caller: the tokens it asked for
  tb_wake,       \* when the asyncio.sleep of the lock holder ends
  seen           \* the latest pipeline: articles scraped, filtered and saved

cfgVars == <<config, max_concurrent_sources>>
runVars == <<cpc, cur, all_results, total_new_articles>>
taskVars == <<pc, semaphore, result, threw>>
dbVars == <<todo, cnt, faults, pending, wlock, rows>>
coordVars == <<cfgVars, runVars, taskVars, dbVars>>
cbVars == <<cb_state, failure_count, last_failure_time, half_open_calls,
            call_pc, now, consec>>
fetchVars == <<fpc, attempt, requests, last_status, retry_after, delay, slept,
              fret, exhausted>>
rateVars == <<rate_limit_seconds, current_rate, success_count,
             rl_failure_count, since_adjustment, rl_op>>
filterVars == <<recent_hashes, fl_last>>
poolVars == <<connection_semaphore, op_pc, open_conns>>
scrapeVars == <<stage, scrape_fetch, raw_articles, src_result>>
modelVars == <<en_last, made>>
acquireVars == <<acq_pc, acq_wake, acq_last, acq_gap>>
bucketVars == <<tokens, last_refill, tb_lock, tb_pc, tb_req, tb_wake>>
lateVars == <<acquireVars, bucketVars, seen>>
auxVars == <<filterVars, poolVars, scrapeVars, modelVars, lateVars>>
vars == <<coordVars, cbVars, fetchVars, rateVars, auxVars>>

\* -----------------------------------------------------------------
\*      ScrapingCoordinator (orchestration/coordinator.py)
\* -----------------------------------------------------------------

Enabled == {s \in Sources : config[s].enabled}

\* _group_sources_by_priority: the keys, and the sources of one key
PriorityKeys == {config[s].priority : s \in Enabled}
_group_sources_by_priority(p) == {s \in Enabled : config[s].priority = p}

Min(S) == CHOOSE x \in S : \A y \in S : x <= y
Max(S) == CHOOSE x \in S : \A y \in S : x >= y

\* for priority in sorted(sources_by_priority.keys()): the key after cur
NextPriority == Min({p \in PriorityKeys : p > cur})
HasNextPriority == {p \in PriorityKeys : p > cur} # {}

NoResult == [success |-> FALSE, error |-> "pending",
             new_articles |-> 0, duplicates |-> 0, errors |-> 0]

FailedResult_KeepsCount(why, c) ==
  [success |-> FALSE, error |-> why,
   new_articles |-> c.new, duplicates |-> 0, errors |-> 0]

\* the dicts returned on the failure paths of _scrape_and_process_source
\* (c: the counters of the batch at that moment, which the dict ignores)
FailedResult(why, c) ==
  [success |-> FALSE, error |-> why,
   new_articles |-> 0, duplicates |-> 0, errors |-> 0]

SuccessResult_CountsDuplicates(c) ==
  [success |-> TRUE, error |-> "none",
   new_articles |-> c.new + c.dup, duplicates |-> c.dup, errors |-> c.err]

\* the dict returned on the success paths
SuccessResult(c) ==
  [success |-> TRUE, error |-> "none",
   new_articles |-> c.new, duplicates |-> c.dup, errors |-> c.err]

ZeroCount == [new |-> 0, dup |-> 0, err |-> 0]

SemaphoreFree_Unbounded == TRUE

\* async with semaphore: __aenter__ proceeds when a permit is free
SemaphoreFree == semaphore > 0

ReleaseSemaphore_Leak == semaphore

\* async with semaphore: __aexit__
ReleaseSemaphore == semaphore + 1

\* A task leaves the pipeline with result r (step that raised: t).
Finish(s, r, t) ==
  /\ pc' = [pc EXCEPT ![s] = "done"]
  /\ result' = [result EXCEPT ![s] = r]
  /\ threw' = [threw EXCEPT ![s] = t]
  /\ semaphore' = ReleaseSemaphore

GatherDone_NoWait(T) == TRUE

\* asyncio.gather(...) has returned: every task of the tier is finished
GatherDone(T) == \A s \in T : pc[s] = "done"

\* source_results of _process_priority_tier: for i, result in enumerate(results)
\* writes source_results[name], so a later task of the same name overwrites.
source_results(T) ==
  [n \in {config[s].name : s \in T} |->
     result[Max({s \in T : config[s].name = n})]]

\* dict.update
DictUpdate(a, b) ==
  [n \in (DOMAIN a) \cup (DOMAIN b) |-> IF n \in DOMAIN b THEN b[n] ELSE a[n]]

RECURSIVE SumNew(_, _)
\* sum(r.get('new_articles', 0) for r in priority_results.values())
SumNew(f, D) ==
  IF D = {} THEN 0
  ELSE LET n == CHOOSE x \in D : TRUE
       IN  f[n].new_articles + SumNew(f, D \ {n})

\* tasks of a tier are created and handed to gather
StartTier(p) ==
  /\ cur' = p
  /\ cpc' = "gather"
  /\ semaphore' = max_concurrent_sources
  /\ pc' = [s \in Sources |->
              IF s \in _group_sources_by_priority(p) THEN "waiting" ELSE pc[s]]

\* run_coordinated_scraping up to the first gather (or the return when
\* no source is enabled)
StartRun ==
  /\ cpc = "init"
  /\ IF HasNextPriority
       THEN StartTier(NextPriority)
       ELSE /\ cpc' = "done"
            /\ UNCHANGED <<cur, semaphore, pc>>
  /\ UNCHANGED <<cfgVars, result, threw, all_results, total_new_articles, dbVars>>
  /\ UNCHANGED <<cbVars, fetchVars, rateVars, auxVars>>

\* process_single_source enters the semaphore, creates the scraper and
\* calls validate_source (first suspension: the HTTP fetch)
BeginSource(s) ==
  /\ cpc = "gather"
  /\ pc[s] = "waiting"
  /\ SemaphoreFree
  /\ \/ /\ pc' = [pc EXCEPT ![s] = "validate"]
        /\ semaphore' = semaphore - 1
        /\ UNCHANGED <<result, threw>>
     \/ \* create_scraper returned None: unknown source type (t = "none"),
        \* or the scraper's constructor raised inside the factory
        \E t \in {"none", "create"} :
          /\ pc' = [pc EXCEPT ![s] = "done"]
          /\ result' = [result EXCEPT ![s] =
                          FailedResult("Failed to create scraper", cnt[s])]
          /\ threw' = [threw EXCEPT ![s] = t]
          /\ UNCHANGED semaphore
  /\ UNCHANGED <<cfgVars, runVars, dbVars>>
  /\ UNCHANGED <<cbVars, fetchVars, rateVars, auxVars>>

\* validate_source returns or raises; on True scrape_articles is called
ValidateReturn(s) ==
  /\ pc[s] = "validate"
  /\ \/ /\ pc' = [pc EXCEPT ![s] = "scrape"]
        /\ UNCHANGED <<result, threw, semaphore>>
     \/ Finish(s, FailedResult("Source validation failed", cnt[s]), "none")
     \/ Finish(s, FailedResult("exception", cnt[s]), "validate")
  /\ UNCHANGED <<cfgVars, runVars, dbVars>>
  /\ UNCHANGED <<cbVars, fetchVars, rateVars, auxVars>>

\* scrape_articles returns or raises; the time filter, is_valid_article and
\* enrich_article run without suspension; a non-empty valid_articles opens
\* the transaction of save_article_batch
ScrapeReturn(s) ==
  /\ pc[s] = "scrape"
  /\ \/ /\ \E t \in {"scrape", "filter"} :
             Finish(s, FailedResult("exception", cnt[s]), t)
        /\ UNCHANGED todo
     \/ \E valid \in SeqsUpTo(Article, config[s].max_articles_per_run) :
          IF valid = <<>>
            THEN /\ Finish(s, SuccessResult(ZeroCount), "none")
                 /\ UNCHANGED todo
            ELSE \/ /\ pc' = [pc EXCEPT ![s] = "save"]
                    /\ todo' = [todo EXCEPT ![s] = valid]
                    /\ UNCHANGED <<result, threw, semaphore>>
                 \/ \* connecting or BEGIN TRANSACTION raised
                    /\ Finish(s, FailedResult("exception", cnt[s]), "save")
                    /\ UNCHANGED todo
  /\ UNCHANGED <<cfgVars, runVars, cnt, faults, pending, wlock, rows>>
  /\ UNCHANGED <<cbVars, fetchVars, rateVars, auxVars>>

\* -----------------------------------------------------------------
\*       AsyncNewsDatabase.save_article_batch (storage/database.py)
\* -----------------------------------------------------------------

\* what the connection of s sees: committed rows and its own inserts
Visible(s) == rows \cup pending[s]

Conflicts_IdOnly(a, R) == \E r \in R : r.id = a.id

\* PRIMARY KEY (id) / UNIQUE (url): INSERT OR IGNORE skips a conflicting row
Conflicts(a, R) == \E r \in R : r.id = a.id \/ r.url = a.url

\* the row of table articles (with the task that wrote it and whether its
\* article_metadata / article_tags rows were all written)
Row(a, s, aux) == [id |-> a.id, url |-> a.url, by |-> s, aux |-> aux]

IgnoredCount_AsError(c) == [c EXCEPT !.err = @ + 1]

\* rowcount = 0: duplicate_count += 1
IgnoredCount(c) == [c EXCEPT !.dup = @ + 1]

OnConflict_Replace(R, a) == {r \in R : r.id # a.id /\ r.url # a.url}

\* INSERT OR IGNORE INTO articles: on a conflict the statement does nothing,
\* the rows of the table stay as they are
OnConflict(R, a) == R

\* one iteration of "for article in articles"
InsertArticle(s) ==
  /\ pc[s] = "save"
  /\ todo[s] # <<>>
  /\ LET a == Head(todo[s]) IN
     \/ /\ cnt' = [cnt EXCEPT ![s].err = @ + 1]
        /\ faults' = [faults EXCEPT ![s] = @ + 1]
        /\ UNCHANGED <<pending, wlock, rows>>
     \/ /\ wlock \in {0, s}
        /\ wlock' = s
        /\ IF Conflicts(a, Visible(s))
             THEN /\ cnt' = [cnt EXCEPT ![s] = IgnoredCount(@)]
                  /\ rows' = OnConflict(rows, a)
                  /\ UNCHANGED <<pending, faults>>
             ELSE \/ /\ cnt' = [cnt EXCEPT ![s].new = @ + 1]
                     /\ pending' = [pending EXCEPT
                                      ![s] = @ \cup {Row(a, s, TRUE)}]
                     /\ UNCHANGED <<faults, rows>>
                  \/ /\ cnt' = [cnt EXCEPT ![s].new = @ + 1,
                                           ![s].err = @ + 1]
                     /\ faults' = [faults EXCEPT ![s] = @ + 1]
                     /\ pending' = [pending EXCEPT
                                      ![s] = @ \cup {Row(a, s, FALSE)}]
                     /\ UNCHANGED rows
  /\ todo' = [todo EXCEPT ![s] = Tail(@)]
  /\ UNCHANGED <<cfgVars, runVars, taskVars>>
  /\ UNCHANGED <<cbVars, fetchVars, rateVars, auxVars>>

\* COMMIT after the loop, or ROLLBACK and re-raise when COMMIT raised;
\* then _scrape_and_process_source builds its result
Commit(s) ==
  /\ pc[s] = "save"
  /\ todo[s] = <<>>
  /\ \/ /\ rows' = rows \cup pending[s]
        /\ Finish(s, SuccessResult(cnt[s]), "none")
     \/ /\ UNCHANGED rows
        /\ Finish(s, FailedResult("exception", cnt[s]), "save")
  /\ pending' = [pending EXCEPT ![s] = {}]
  /\ wlock' = IF wlock = s THEN 0 ELSE wlock
  /\ UNCHANGED <<cfgVars, runVars, todo, cnt, faults>>
  /\ UNCHANGED <<cbVars, fetchVars, rateVars, auxVars>>

\* gather returned: collect the tier's results, then sleep before the next
\* tier or return after the last one
FinishTier ==
  /\ cpc = "gather"
  /\ GatherDone(_group_sources_by_priority(cur))
  /\ LET priority_results == source_results(_group_sources_by_priority(cur)) IN
       /\ all_results' = DictUpdate(all_results, priority_results)
       /\ total_new_articles' =
            total_new_articles + SumNew(priority_results, DOMAIN priority_results)
  /\ cpc' = IF cur < Max(PriorityKeys) THEN "sleep" ELSE "done"
  /\ UNCHANGED <<cfgVars, cur, taskVars, dbVars>>
  /\ UNCHANGED <<cbVars, fetchVars, rateVars, auxVars>>

\* asyncio.sleep(priority_delay) is over: next iteration of the loop
NextTier ==
  /\ cpc = "sleep"
  /\ StartTier(NextPriority)
  /\ UNCHANGED <<cfgVars, result, threw, all_results, total_new_articles, dbVars>>
  /\ UNCHANGED <<cbVars, fetchVars, rateVars, auxVars>>

\* -----------------------------------------------------------------
\*                 CircuitBreaker (utils/http_client.py)
\* -----------------------------------------------------------------

NoTime == 0    \* last_failure_time = None

_should_attempt_reset_Early == last_failure_time # NoTime

\* _should_attempt_reset
_should_attempt_reset ==
  last_failure_time # NoTime /\ now - last_failure_time >= recovery_timeout

BlockedWhileOpen_Never == FALSE

\* call, lines 49-55: the breaker is OPEN and stays OPEN, the call is refused
BlockedWhileOpen == cb_state = "open" /\ ~_should_attempt_reset

ProbeLimitReached_OneMore(n) == n > half_open_max_calls

\* call, line 58: the HALF_OPEN episode has admitted all its probes
ProbeLimitReached(n) == n >= half_open_max_calls

\* CircuitBreaker.call up to the invocation of the wrapped function: the
\* section under the lock, which admits the call of c or raises
call_admission(c) ==
  /\ LET toHalf   == cb_state = "open" /\ ~BlockedWhileOpen
         st       == IF toHalf THEN "half_open" ELSE cb_state
         probes   == IF toHalf THEN 0 ELSE half_open_calls
         limited  == st = "half_open" /\ ProbeLimitReached(probes)
     IN  IF BlockedWhileOpen
           THEN /\ call_pc' = [call_pc EXCEPT ![c] = "open_error"]
                /\ UNCHANGED <<cb_state, half_open_calls>>
           ELSE /\ cb_state' = st
                /\ IF limited
                     THEN /\ call_pc' = [call_pc EXCEPT ![c] = "limit_error"]
                          /\ half_open_calls' = probes
                     ELSE /\ call_pc' = [call_pc EXCEPT ![c] = "inflight"]
                          /\ half_open_calls' =
                               IF st = "half_open" THEN probes + 1 ELSE probes
  /\ UNCHANGED <<failure_count, last_failure_time, now, consec>>

\* a caller enters CircuitBreaker.call
CallEnter(c) ==
  /\ call_pc[c] # "inflight"
  /\ call_admission(c)
  /\ UNCHANGED <<coordVars, fetchVars, rateVars, auxVars>>

SuccessCount_Keep == failure_count

\* _on_success: the failure count after a successful call
SuccessCount == 0

AfterSuccess_Stay(st) == st

\* _on_success: the state after a successful call made in state st
AfterSuccess(st) == IF st = "half_open" THEN "closed" ELSE st

\* _on_success
_on_success ==
  /\ failure_count' = SuccessCount
  /\ cb_state' = AfterSuccess(cb_state)
  /\ consec' = 0
  /\ UNCHANGED <<last_failure_time, half_open_calls, now>>

\* the wrapped function returned
CallSuccess(c) ==
  /\ call_pc[c] = "inflight"
  /\ call_pc' = [call_pc EXCEPT ![c] = "success"]
  /\ _on_success
  /\ UNCHANGED <<coordVars, fetchVars, rateVars, auxVars>>

\* _on_failure: the breaker opens at this failure count
Trips(n) == n >= failure_threshold

\* _on_failure
_on_failure ==
  /\ failure_count' = failure_count + 1
  /\ last_failure_time' = now
  /\ cb_state' = IF Trips(failure_count + 1) THEN "open" ELSE cb_state
  /\ consec' = consec + 1
  /\ UNCHANGED <<half_open_calls, now>>

\* the wrapped function raised
CallFailure(c) ==
  /\ call_pc[c] = "inflight"
  /\ call_pc' = [call_pc EXCEPT ![c] = "failure"]
  /\ _on_failure
  /\ UNCHANGED <<coordVars, fetchVars, rateVars, auxVars>>

\* time.time() advances
Tick ==
  /\ now < MaxTime
  /\ now' = now + 1
  /\ UNCHANGED <<cb_state, failure_count, last_failure_time, half_open_calls,
                 call_pc, consec>>
  /\ UNCHANGED <<coordVars, fetchVars, rateVars, auxVars>>

\* -----------------------------------------------------------------
\*        AsyncHTTPClient.get_with_retry (utils/http_client.py)
\* -----------------------------------------------------------------

Fetcher == 1                \* the caller of CircuitBreaker.call that fetches

\* what one session.get can end in: a status class or a raised exception
Responses == {"200", "429", "5xx", "4xx", "timeout", "client_error"}

\* The Retry-After header of a 429 response: a number of seconds, an HTTP
\* date that lies value seconds ahead, or no header at all.
RetryAfterHeaders ==
  [form : {"seconds", "date"}, value : 0..MaxRetryAfter]
    \cup {[form |-> "absent", value |-> 0]}
NoHeader == [form |-> "absent", value |-> 0]

\* int(response.headers.get('Retry-After', 60)): raises ValueError on a date
IntParses(h) == h.form # "date"
RetryAfterSeconds(h) == IF h.form = "absent" THEN DefaultRetryAfter ELSE h.value

OnResponse_RetryClientError(resp, h) ==
  CASE resp = "200" -> "content"
    [] resp = "429" /\ IntParses(h) -> "retry_after"
    [] OTHER -> "except"

\* the if/elif chain on response.status and the except clauses: the branch
\* one attempt takes
OnResponse(resp, h) ==
  CASE resp = "200" -> "content"
    [] resp = "429" /\ IntParses(h) -> "retry_after"
    [] resp = "4xx" -> "none"
    [] OTHER -> "except"

RECURSIVE Pow(_, _)
Pow(b, n) == IF n = 0 THEN 1 ELSE b * Pow(b, n - 1)

\* the delay before the next attempt, in whole seconds: base_delay *
\* exponential_base ** attempt capped at max_delay, then scaled by a jitter
\* factor of 0.5 to 1
Backoff(a) == Min({base_delay * Pow(exponential_base, a), max_delay})
Jitter(d) == ((d + 1) \div 2)..d

\* for attempt in range(max_retries + 1): attempt a is the last one
LastAttempt(a) == a >= max_retries

\* circuit_breaker.call sees _get_with_retry_internal return v: _on_success
FetchReturns(v, usedUp) ==
  /\ fpc' = "returned"
  /\ fret' = v
  /\ call_pc' = [call_pc EXCEPT ![Fetcher] = "success"]
  /\ _on_success
  /\ exhausted' = IF usedUp THEN Min({exhausted + 1, failure_threshold}) ELSE 0

\* get_with_retry: circuit_breaker.call admits the fetch or raises
FetchBegin ==
  /\ fpc \in {"idle", "returned", "raised"}
  /\ call_admission(Fetcher)
  /\ fpc' = IF call_pc'[Fetcher] = "inflight" THEN "request" ELSE "raised"
  /\ fret' = IF call_pc'[Fetcher] = "inflight" THEN "pending" ELSE "raised"
  /\ attempt' = 0
  /\ requests' = 0
  /\ last_status' = "none"
  /\ retry_after' = 0
  /\ delay' = 0
  /\ slept' = 0
  /\ UNCHANGED <<exhausted, coordVars, rateVars, auxVars>>

\* one iteration of the retry loop: session.get and what follows it up to
\* the next await
SendRequest ==
  /\ fpc = "request"
  /\ \E resp \in Responses :
     \E h \in IF resp = "429" THEN RetryAfterHeaders ELSE {NoHeader} :
       /\ requests' = requests + 1
       /\ last_status' = resp
       /\ retry_after' = h.value
       /\ slept' = 0
       /\ LET branch == OnResponse(resp, h)
          IN  CASE branch = "content" ->
                     /\ FetchReturns("content", FALSE)
                     /\ delay' = 0
                [] branch = "none" ->
                     /\ FetchReturns("None", FALSE)
                     /\ delay' = 0
                [] branch = "retry_after" ->
                     /\ fpc' = "sleep_429"
                     /\ delay' = RetryAfterSeconds(h)
                     /\ UNCHANGED <<fret, exhausted, cbVars>>
                [] OTHER ->
                     IF LastAttempt(attempt)
                       THEN /\ FetchReturns("None", TRUE)
                            /\ delay' = 0
                       ELSE /\ fpc' = "backoff"
                            /\ delay' \in Jitter(Backoff(attempt))
                            /\ UNCHANGED <<fret, exhausted, cbVars>>
  /\ UNCHANGED <<attempt, coordVars, rateVars, auxVars>>

\* a second of the asyncio.sleep in progress passes
SleepSecond ==
  /\ fpc \in {"sleep_429", "backoff"}
  /\ slept < delay
  /\ slept' = slept + 1
  /\ UNCHANGED <<fpc, attempt, requests, last_status, retry_after, delay, fret,
                 exhausted>>
  /\ UNCHANGED <<coordVars, cbVars, rateVars, auxVars>>

\* asyncio.sleep returns: `continue` after a 429, or the end of the loop body
SleepReturn ==
  /\ fpc \in {"sleep_429", "backoff"}
  /\ slept >= delay
  /\ IF LastAttempt(attempt)
       THEN FetchReturns("None", TRUE) /\ UNCHANGED attempt
       ELSE /\ attempt' = attempt + 1
            /\ fpc' = "request"
            /\ UNCHANGED <<fret, exhausted, cbVars>>
  /\ UNCHANGED <<requests, last_status, retry_after, delay, slept>>
  /\ UNCHANGED <<coordVars, rateVars, auxVars>>

\* -----------------------------------------------------------------
\*             AdaptiveRateLimiter (utils/rate_limiter.py)
\* -----------------------------------------------------------------
\* Rates are in hundredths of a request per second, rate_limit_seconds in
\* tenths of a second.

\* values of config['rate_limit_seconds']: 0, 0.1 s, 0.5 s, 1 s (the
\* default), 20 s
RateLimitSeconds == {0, 1, 5, 10, 200}

\* base.py line 30: 1.0 / rate_limit if rate_limit > 0 else 1.0
initial_rate(rl) == IF rl > 0 THEN 1000 \div rl ELSE 100

\* r * (pct / 100)
Times(r, pct) == (r * pct) \div 100

\* record_failure, line 79
RateLimitCut(r) == Max({min_rate, Times(r, 50)})

Adjusts_AnySample(sc, fc) == since_adjustment >= adjustment_interval

\* _maybe_adjust_rate gets past its two early returns
Adjusts(sc, fc) ==
  /\ since_adjustment >= adjustment_interval
  /\ sc + fc >= MinSample

\* _maybe_adjust_rate, lines 93-99: success_rate > 0.95 and < 0.8
AdjustedRate(r, sc, fc) ==
  IF sc * 100 > 95 * (sc + fc) THEN Min({max_rate, Times(r, 120)})
  ELSE IF sc * 100 < 80 * (sc + fc) THEN Max({min_rate, Times(r, 80)})
  ELSE r

\* _maybe_adjust_rate, called with the rate and the counters its caller
\* has just updated
_maybe_adjust_rate(r, sc, fc) ==
  IF Adjusts(sc, fc)
    THEN /\ current_rate' = AdjustedRate(r, sc, fc)
         /\ success_count' = 0
         /\ rl_failure_count' = 0
         /\ since_adjustment' = 0
    ELSE /\ current_rate' = r
         /\ success_count' = sc
         /\ rl_failure_count' = fc
         /\ UNCHANGED since_adjustment

\* the counters stay within MaxSamples between two adjustments
MayRecord ==
  \/ success_count + rl_failure_count < MaxSamples
  \/ since_adjustment >= adjustment_interval

record_success ==
  /\ MayRecord
  /\ rl_op' = "success"
  /\ _maybe_adjust_rate(current_rate, success_count + 1, rl_failure_count)
  /\ UNCHANGED <<rate_limit_seconds, coordVars, cbVars, fetchVars, auxVars>>

record_failure(is_rate_limit) ==
  /\ MayRecord
  /\ rl_op' = IF is_rate_limit THEN "rate_limit" ELSE "failure"
  /\ _maybe_adjust_rate(IF is_rate_limit THEN RateLimitCut(current_rate)
                                         ELSE current_rate,
                        success_count, rl_failure_count + 1)
  /\ UNCHANGED <<rate_limit_seconds, coordVars, cbVars, fetchVars, auxVars>>

\* time.time() advances by TickSeconds
RateTick ==
  /\ since_adjustment < adjustment_interval
  /\ since_adjustment' = Min({since_adjustment + TickSeconds, adjustment_interval})
  /\ rl_op' = "tick"
  /\ UNCHANGED <<rate_limit_seconds, current_rate, success_count,
                 rl_failure_count>>
  /\ UNCHANGED <<coordVars, cbVars, fetchVars, auxVars>>

\* -----------------------------------------------------------------
\*             ContentFilter (processing/content_filter.py)
\* -----------------------------------------------------------------

FilterTasks == {1, 2}        \* the sources whose articles are filtered
Hashes == 1..(hash_cache_size + 2)     \* values of get_content_hash()
Lengths == {min_content_length - 1, min_content_length,
            max_content_length, max_content_length + 1}

\* An article as is_valid_article sees it: fields_ok says that the basic
\* fields, blacklist, relevance and quality checks pass.
FilterArticle == [fields_ok : BOOLEAN, content_length : Lengths, hash : Hashes]

NoCall == [by |-> 0, hash |-> 0, fields_ok |-> FALSE, content_length |-> 0,
           verdict |-> FALSE]

_validate_content_length_Strict(n) ==
  min_content_length < n /\ n < max_content_length

_validate_content_length(n) ==
  min_content_length <= n /\ n <= max_content_length

Overflows_Late(n) == n > hash_cache_size + 1

\* _is_duplicate_content, line 176
Overflows(n) == n > hash_cache_size

\* list(...)[-self.hash_cache_size//2:] keeps this many elements
KeepCount == (hash_cache_size + 1) \div 2

\* _is_duplicate_content, lines 173-178: the caches that can result from
\* adding h.  The set is cut down to the last KeepCount elements of its
\* iteration order, which is any order.
CachesAfterAdd(h) ==
  LET added == recent_hashes \cup {h}
  IN  IF Overflows(Cardinality(added))
        THEN {S \in SUBSET added : Cardinality(S) = KeepCount}
        ELSE {added}

\* is_valid_article(a), called while the articles of source t are filtered
IsValidArticle(t, a) ==
  /\ IF a.fields_ok /\ _validate_content_length(a.content_length)
          /\ a.hash \notin recent_hashes
       THEN /\ recent_hashes' \in CachesAfterAdd(a.hash)
            /\ fl_last' = [by |-> t, hash |-> a.hash, fields_ok |-> a.fields_ok,
                           content_length |-> a.content_length,
                           verdict |-> TRUE]
       ELSE /\ fl_last' = [by |-> t, hash |-> a.hash, fields_ok |-> a.fields_ok,
                           content_length |-> a.content_length,
                           verdict |-> FALSE]
            /\ UNCHANGED recent_hashes
  /\ UNCHANGED <<coordVars, cbVars, fetchVars, rateVars>>
  /\ UNCHANGED <<poolVars, scrapeVars, modelVars, lateVars>>

\* -----------------------------------------------------------------
\*        AsyncNewsDatabase.get_connection (storage/database.py)
\* -----------------------------------------------------------------

Ops == 1..NumOps      \* concurrent initialize / save / get / stats calls

SemaphoreExit_LeakOnError(n, raised) == IF raised THEN n ELSE n + 1

\* "async with self.connection_semaphore" is left, normally or by an
\* exception: the permit goes back
SemaphoreExit(n, raised) == n + 1

\* a method of the database enters get_connection
OpCall(o) ==
  /\ op_pc[o] \in {"idle", "ok", "error"}
  /\ op_pc' = [op_pc EXCEPT ![o] = "waiting"]
  /\ UNCHANGED <<connection_semaphore, open_conns>>
  /\ UNCHANGED <<coordVars, cbVars, fetchVars, rateVars>>
  /\ UNCHANGED <<filterVars, scrapeVars, modelVars, lateVars>>

\* connection_semaphore.acquire() returns: a permit was free
OpAcquire(o) ==
  /\ op_pc[o] = "waiting"
  /\ connection_semaphore > 0
  /\ connection_semaphore' = connection_semaphore - 1
  /\ op_pc' = [op_pc EXCEPT ![o] = "connecting"]
  /\ UNCHANGED open_conns
  /\ UNCHANGED <<coordVars, cbVars, fetchVars, rateVars>>
  /\ UNCHANGED <<filterVars, scrapeVars, modelVars, lateVars>>

\* aiosqlite.connect opens the connection, or raises
OpConnect(o) ==
  /\ op_pc[o] = "connecting"
  /\ \/ /\ open_conns' = open_conns \cup {o}
        /\ op_pc' = [op_pc EXCEPT ![o] = "open"]
        /\ UNCHANGED connection_semaphore
     \/ /\ connection_semaphore' = SemaphoreExit(connection_semaphore, TRUE)
        /\ op_pc' = [op_pc EXCEPT ![o] = "error"]
        /\ UNCHANGED open_conns
  /\ UNCHANGED <<coordVars, cbVars, fetchVars, rateVars>>
  /\ UNCHANGED <<filterVars, scrapeVars, modelVars, lateVars>>

\* the PRAGMA statements and the body of the caller's "async with" end,
\* normally or by an exception: the connection is closed, the permit returned
OpEnd(o) ==
  /\ op_pc[o] = "open"
  /\ open_conns' = open_conns \ {o}
  /\ \E raised \in BOOLEAN :
       /\ connection_semaphore' = SemaphoreExit(connection_semaphore, raised)
       /\ op_pc' = [op_pc EXCEPT ![o] = IF raised THEN "error" ELSE "ok"]
  /\ UNCHANGED <<coordVars, cbVars, fetchVars, rateVars>>
  /\ UNCHANGED <<filterVars, scrapeVars, modelVars, lateVars>>

\* -----------------------------------------------------------------
\*   RSSAsyncScraper under _scrape_and_process_source (scrapers/base.py)
\* -----------------------------------------------------------------

FetchOutcome == fpc \in {"returned", "raised"}

\* validate_source: get_with_retry has returned or raised
ValidateSourceReturn ==
  /\ stage = "validate"
  /\ FetchOutcome
  /\ fpc' = "idle"
  /\ IF fret = "content"
       THEN /\ stage' = "scrape"
            /\ src_result' = NoResult
       ELSE /\ stage' = "validate"
            /\ src_result' = FailedResult("Source validation failed", ZeroCount)
  /\ scrape_fetch' = "none"
  /\ raw_articles' = 0
  /\ UNCHANGED <<attempt, requests, last_status, retry_after, delay, slept,
                 fret, exhausted>>
  /\ UNCHANGED <<coordVars, cbVars, rateVars>>
  /\ UNCHANGED <<filterVars, poolVars, modelVars, lateVars>>

\* the dict _scrape_and_process_source returns right after scrape_articles
\* ("if not raw_articles"), NoResult when it goes on to filter and save
AfterScrape(n) == IF n = 0 THEN SuccessResult(ZeroCount) ELSE NoResult

\* scrape_articles: get_with_retry has returned or raised; no content and an
\* exception both give [] after record_failure, content is parsed into up
\* to max_articles articles after record_success
ScrapeArticlesReturn ==
  /\ stage = "scrape"
  /\ FetchOutcome
  /\ MayRecord
  /\ fpc' = "idle"
  /\ scrape_fetch' = fret
  /\ IF fret = "content"
       THEN /\ rl_op' = "success"
            /\ _maybe_adjust_rate(current_rate, success_count + 1,
                                  rl_failure_count)
            /\ raw_articles' \in 0..MaxBatch
       ELSE /\ rl_op' = "failure"
            /\ _maybe_adjust_rate(current_rate, success_count,
                                  rl_failure_count + 1)
            /\ raw_articles' = 0
  /\ src_result' = AfterScrape(raw_articles')
  /\ stage' = "validate"
  /\ UNCHANGED <<attempt, requests, last_status, retry_after, delay, slept,
                 fret, exhausted>>
  /\ UNCHANGED <<rate_limit_seconds, coordVars, cbVars>>
  /\ UNCHANGED <<filterVars, poolVars, modelVars, lateVars>>

\* -----------------------------------------------------------------
\*        ContentFilter.enrich_article (processing/content_filter.py)
\* -----------------------------------------------------------------

\* Optional[float] relevance_score, in hundredths: None, or a value
Unscored == [scored |-> FALSE, value |-> 0]
Score(v) == [scored |-> TRUE, value |-> v]

\* scores a scraper gives its articles: upvotes - downvotes (api_scraper),
\* float(post_data['score']) (reddit_scraper)
PresetScores == {-100, 0, 1000, 1100}

\* timestamps behind and ahead of datetime.now(), in hours
Ages == {-24, 0, 23, 24, 48}

\* An article as enrich_article sees it: keyword_matches of the
\* crypto_keywords occur in its text of text_length words (the title is
\* never empty), title_matches of them in the title; id stands for the
\* fields that identify it.
EnrichArticle ==
  {a \in [id : Ids,
          relevance_score : {Unscored} \cup {Score(v) : v \in PresetScores},
          keyword_matches : 0..MaxKeywords, title_matches : 0..MaxKeywords,
          text_length : 1..MaxWords, age_hours : Ages] :
     a.title_matches <= a.keyword_matches}

\* min(10.0, max(0.0, score))
Normalize(score) == Min({1000, Max({0, score})})

_calculate_relevance_score(a) ==
  LET density == IF a.text_length > 0
                   THEN (a.keyword_matches * 10000) \div a.text_length
                   ELSE 0
      title == a.title_matches * 1000
      recent == IF a.age_hours < 24
                  THEN ((24 - a.age_hours) * 500) \div 24
                  ELSE 0
  IN  Normalize(density + title + recent)

NoEnrich == [called |-> FALSE, article |-> Unscored, returned |-> Unscored,
             relevance_score |-> Unscored]

EnrichedScore_Always(a) == Score(_calculate_relevance_score(a))

\* "if article.relevance_score is None: article.relevance_score = ..."
EnrichedScore(a) ==
  IF a.relevance_score = Unscored
    THEN Score(_calculate_relevance_score(a))
    ELSE a.relevance_score

\* enrich_article: the score is computed only "if article.relevance_score
\* is None"; the metadata it adds is not modelled
enrich_article(a) ==
  /\ en_last' = [called |-> TRUE, article |-> a,
                 returned |-> [a EXCEPT !.relevance_score = EnrichedScore(a)],
                 relevance_score |-> EnrichedScore(a)]
  /\ UNCHANGED made
  /\ UNCHANGED <<coordVars, cbVars, fetchVars, rateVars>>
  /\ UNCHANGED <<filterVars, poolVars, scrapeVars, lateVars>>

\* -----------------------------------------------------------------
\*                   NewsArticle (core/models.py)
\* -----------------------------------------------------------------

\* strings are sequences of characters; "" is <<>>
ExplicitIds == {<<>>, <<7>>}
Titles == {<<4>>, <<5>>}
UrlTexts == {<<1>>, <<1, 2>>}
Stamps == {<<1>>, <<2, 1>>}         \* str(timestamp)
SourceTexts == {<<3>>}

\* the constructor arguments with which __post_init__ does not raise:
\* title, url and source are not empty
ArticleArgs == [id : ExplicitIds, title : Titles, url : UrlTexts,
                timestamp : Stamps, source : SourceTexts]

DigestSize == 65536

\* hashlib.md5(text).hexdigest()[:16]: a fixed function of the characters
RECURSIVE Digest(_)
Digest(text) ==
  IF text = <<>> THEN 0
  ELSE (Digest(SubSeq(text, 1, Len(text) - 1)) * 31 + text[Len(text)])
         % DigestSize

generate_id_WithTitle(a) ==
  <<Digest(a.url \o a.timestamp \o a.source \o a.title)>>

\* f"{self.url}{self.timestamp}{self.source}" hashed
generate_id(a) == <<Digest(a.url \o a.timestamp \o a.source)>>

\* "if not self.id: self.id = self.generate_id()"
__post_init__(a) == [a EXCEPT !.id = IF a.id = <<>> THEN generate_id(a) ELSE a.id]

NoneMade == [built |-> FALSE, args |-> <<>>, articles |-> <<>>, ids |-> <<>>]

\* NewsArticle(**x) and NewsArticle(**y) are built, then generate_id() is
\* called twice on the first
NewArticles(x, y) ==
  /\ made' = [built |-> TRUE, args |-> <<x, y>>,
              articles |-> <<__post_init__(x), __post_init__(y)>>,
              ids |-> <<generate_id(__post_init__(x)),
                        generate_id(__post_init__(x))>>]
  /\ UNCHANGED en_last
  /\ UNCHANGED <<coordVars, cbVars, fetchVars, rateVars>>
  /\ UNCHANGED <<filterVars, poolVars, scrapeVars, lateVars>>

\* -----------------------------------------------------------------
\*          AdaptiveRateLimiter.acquire (utils/rate_limiter.py)
\* -----------------------------------------------------------------

NoGap == -1

\* 1.0 / self.current_rate, in seconds (the rate is in hundredths)
AcquireDelay(r) == 100 \div r

\* a task calls acquire(): asyncio.sleep(1.0 / self.current_rate) starts
AcquireCall(c) ==
  /\ acq_pc[c] \in {"idle", "returned"}
  /\ acq_pc' = [acq_pc EXCEPT ![c] = "sleeping"]
  /\ acq_wake' = [acq_wake EXCEPT ![c] = now + AcquireDelay(current_rate)]
  /\ UNCHANGED <<acq_last, acq_gap>>
  /\ UNCHANGED <<coordVars, cbVars, fetchVars, rateVars>>
  /\ UNCHANGED <<filterVars, poolVars, scrapeVars, modelVars, bucketVars, seen>>

\* the sleep is over: acquire() returns
AcquireReturn(c) ==
  /\ acq_pc[c] = "sleeping"
  /\ now >= acq_wake[c]
  /\ acq_pc' = [acq_pc EXCEPT ![c] = "returned"]
  /\ acq_gap' = IF acq_last = NoTime THEN NoGap ELSE now - acq_last
  /\ acq_last' = now
  /\ UNCHANGED acq_wake
  /\ UNCHANGED <<coordVars, cbVars, fetchVars, rateVars>>
  /\ UNCHANGED <<filterVars, poolVars, scrapeVars, modelVars, bucketVars, seen>>

\* -----------------------------------------------------------------
\*            TokenBucketRateLimiter (utils/rate_limiter.py)
\* -----------------------------------------------------------------

\* the tokens argument of acquire: none, some, all, more than the bucket holds
TokenRequests == 0..(max_tokens + 1)

Refilled_Uncapped(t, elapsed) == t + elapsed * refill_rate

\* _refill_tokens: min(max_tokens, tokens + elapsed * refill_rate)
Refilled(t, elapsed) == Min({max_tokens, t + elapsed * refill_rate})

\* wait_time = tokens_needed / refill_rate, in whole seconds
WaitTime(needed) == (needed + refill_rate - 1) \div refill_rate

\* a task calls acquire(n) and reaches "async with self._lock"
BucketCall(c, n) ==
  /\ tb_pc[c] \in {"idle", "returned"}
  /\ tb_pc' = [tb_pc EXCEPT ![c] = "queued"]
  /\ tb_req' = [tb_req EXCEPT ![c] = n]
  /\ UNCHANGED <<tokens, last_refill, tb_lock, tb_wake>>
  /\ UNCHANGED <<coordVars, cbVars, fetchVars, rateVars>>
  /\ UNCHANGED <<filterVars, poolVars, scrapeVars, modelVars, acquireVars, seen>>

\* the lock is taken: refill, then either the tokens are there and acquire
\* returns, or the caller sleeps for them with the lock held
BucketEnter(c) ==
  /\ tb_pc[c] = "queued"
  /\ tb_lock = 0
  /\ LET t == Refilled(tokens, now - last_refill)
         n == tb_req[c]
     IN  /\ last_refill' = now
         /\ IF t >= n
              THEN /\ tokens' = t - n
                   /\ tb_pc' = [tb_pc EXCEPT ![c] = "returned"]
                   /\ UNCHANGED <<tb_lock, tb_wake>>
              ELSE /\ tokens' = t
                   /\ tb_pc' = [tb_pc EXCEPT ![c] = "sleeping"]
                   /\ tb_lock' = c
                   /\ tb_wake' = now + WaitTime(n - t)
  /\ UNCHANGED tb_req
  /\ UNCHANGED <<coordVars, cbVars, fetchVars, rateVars>>
  /\ UNCHANGED <<filterVars, poolVars, scrapeVars, modelVars, acquireVars, seen>>

\* the sleep is over: refill again, tokens = max(0, tokens - n), the lock
\* is released and acquire returns
BucketWake(c) ==
  /\ tb_pc[c] = "sleeping"
  /\ now >= tb_wake
  /\ tokens' = Max({0, Refilled(tokens, now - last_refill) - tb_req[c]})
  /\ last_refill' = now
  /\ tb_lock' = 0
  /\ tb_pc' = [tb_pc EXCEPT ![c] = "returned"]
  /\ UNCHANGED <<tb_req, tb_wake>>
  /\ UNCHANGED <<coordVars, cbVars, fetchVars, rateVars>>
  /\ UNCHANGED <<filterVars, poolVars, scrapeVars, modelVars, acquireVars, seen>>

\* -----------------------------------------------------------------
\*   _scrape_and_process_source from scrape_articles to the batch
\*   (orchestration/coordinator.py, lines 164-197)
\* -----------------------------------------------------------------

\* An article as the pipeline sees it: k is its id, its url and its content
\* hash; it passes the field checks of is_valid_article or not; its
\* timestamp lies age_hours before datetime.now().
PipeArticle ==
  {[id |-> k, url |-> k, hash |-> k, fields_ok |-> ok,
    content_length |-> min_content_length, age_hours |-> g] :
     k \in Ids, ok \in BOOLEAN, g \in {hours_back, hours_back + 1}}

IsRecent_Any(a) == TRUE

\* article.timestamp >= cutoff_time, cutoff_time = now - hours_back
IsRecent(a) == a.age_hours <= hours_back

\* is_valid_article(a) with the cache C
Accepted(a, C) ==
  /\ a.fields_ok
  /\ _validate_content_length(a.content_length)
  /\ a.hash \notin C

\* _is_duplicate_content adds h to the cache C
CachesAfter(C, h) ==
  LET added == C \cup {h}
  IN  IF Overflows(Cardinality(added))
        THEN {S \in SUBSET added : Cardinality(S) = KeepCount}
        ELSE {added}

\* "for article in recent_articles: if is_valid_article(article): ..." from
\* the cache C: the caches it can end with, the articles appended to
\* valid_articles and the hashes added on the way
RECURSIVE FilterRuns(_, _)
FilterRuns(C, q) ==
  IF q = <<>> THEN {[cache |-> C, valid |-> <<>>, added |-> {}]}
  ELSE LET a == Head(q)
       IN  IF Accepted(a, C)
             THEN UNION {{[cache |-> r.cache, valid |-> <<a>> \o r.valid,
                           added |-> r.added \cup {a.hash}] :
                            r \in FilterRuns(C2, Tail(q))} :
                         C2 \in CachesAfter(C, a.hash)}
             ELSE FilterRuns(C, Tail(q))

NoneSeen == [raw |-> <<>>, checked |-> <<>>, batch |-> <<>>, added |-> {}]

\* scrape_articles returns or raises; the time filter and the loop over
\* is_valid_article / enrich_article run without suspension; a non-empty
\* valid_articles opens the transaction of save_article_batch
ScrapeAndFilter(s) ==
  /\ pc[s] = "scrape"
  /\ \/ /\ Finish(s, FailedResult("exception", cnt[s]), "scrape")
        /\ UNCHANGED <<todo, recent_hashes, seen>>
     \/ \E raw \in SeqsUpTo(PipeArticle, config[s].max_articles_per_run) :
          IF raw = <<>>
            THEN /\ Finish(s, SuccessResult(ZeroCount), "none")
                 /\ seen' = [seen EXCEPT ![s] = NoneSeen]
                 /\ UNCHANGED <<todo, recent_hashes>>
            ELSE LET recent == SelectSeq(raw, IsRecent)
                 IN  \E r \in FilterRuns(recent_hashes, recent) :
                       /\ recent_hashes' = r.cache
                       /\ seen' = [seen EXCEPT ![s] =
                                     [raw |-> raw, checked |-> recent,
                                      batch |-> r.valid, added |-> r.added]]
                       /\ IF r.valid = <<>>
                            THEN /\ Finish(s, SuccessResult(ZeroCount), "none")
                                 /\ UNCHANGED todo
                            ELSE \/ /\ pc' = [pc EXCEPT ![s] = "save"]
                                    /\ todo' = [todo EXCEPT ![s] = r.valid]
                                    /\ UNCHANGED <<result, threw, semaphore>>
                                 \/ /\ Finish(s, FailedResult("exception", cnt[s]),
                                              "save")
                                    /\ UNCHANGED todo
  /\ UNCHANGED <<cfgVars, runVars, cnt, faults, pending, wlock, rows>>
  /\ UNCHANGED <<cbVars, fetchVars, rateVars>>
  /\ UNCHANGED <<fl_last, poolVars, scrapeVars, modelVars, acquireVars, bucketVars>>

\* -----------------------------------------------------------------
\*                        Specifications
\* -----------------------------------------------------------------

SourceConfig == [name : Names, priority : Priorities, enabled : BOOLEAN,
                 max_articles_per_run : 1..MaxBatch]

DisabledSource == [name |-> 1, priority |-> DefaultPriority, enabled |-> FALSE,
                   max_articles_per_run |-> 1]

\* Source lists up to renaming: a disabled source is skipped by
\* _group_sources_by_priority, so disabled sources are listed last with
\* default fields; names are only compared, so they are numbered in order
\* of first use.  Priorities are free (the list need not be sorted).  Each
\* source yields at most one article per run (max_articles_per_run = 1).
Canonical(c) ==
  \A s \in Sources :
    /\ ~c[s].enabled => c[s] = DisabledSource /\ \A t \in Sources : t > s => ~c[t].enabled
    /\ c[s].max_articles_per_run = 1
    /\ c[s].name <= 1 + Max({0} \cup {c[t].name : t \in 1..(s - 1)})

Configs == {c \in [Sources -> SourceConfig] : Canonical(c)}

\* The store scenario: the sources Writers are enabled, with distinct names
\* and any priorities; their batches hold up to MaxBatch articles.
StoreConfigs ==
  {c \in [Sources -> SourceConfig] :
     \A s \in Sources :
       IF s \in Writers
         THEN c[s].enabled /\ c[s].name = s /\ c[s].max_articles_per_run = MaxBatch
         ELSE c[s] = DisabledSource}

InitCB ==
  /\ cb_state = "closed"
  /\ failure_count = 0
  /\ last_failure_time = NoTime
  /\ half_open_calls = 0
  /\ call_pc = [c \in Callers |-> "idle"]
  /\ now = 1
  /\ consec = 0

InitFetch ==
  /\ fpc = "idle"
  /\ attempt = 0
  /\ requests = 0
  /\ last_status = "none"
  /\ retry_after = 0
  /\ delay = 0
  /\ slept = 0
  /\ fret = "pending"
  /\ exhausted = 0

\* AdaptiveRateLimiter.__init__ as BaseAsyncScraper.__init__ calls it
InitRate(rl) ==
  /\ rate_limit_seconds = rl
  /\ current_rate = initial_rate(rl)
  /\ success_count = 0
  /\ rl_failure_count = 0
  /\ since_adjustment = 0
  /\ rl_op = "init"

\* a scraper with the default rate_limit_seconds, its client not yet used
InitIdle ==
  /\ InitFetch
  /\ InitRate(10)

\* ContentFilter.__init__
InitFilter ==
  /\ recent_hashes = {}
  /\ fl_last = NoCall

\* AsyncNewsDatabase.__init__
InitPool ==
  /\ connection_semaphore = max_connections
  /\ op_pc = [o \in Ops |-> "idle"]
  /\ open_conns = {}

\* a source task about to validate its source
InitScrape ==
  /\ stage = "validate"
  /\ scrape_fetch = "none"
  /\ raw_articles = 0
  /\ src_result = NoResult

InitModels ==
  /\ en_last = NoEnrich
  /\ made = NoneMade

\* AdaptiveRateLimiter with no acquire() made yet
InitAcquire ==
  /\ acq_pc = [c \in Callers |-> "idle"]
  /\ acq_wake = [c \in Callers |-> 0]
  /\ acq_last = NoTime
  /\ acq_gap = NoGap

\* TokenBucketRateLimiter.__init__: a full bucket
InitBucket ==
  /\ tokens = max_tokens
  /\ last_refill = 1
  /\ tb_lock = 0
  /\ tb_pc = [c \in Callers |-> "idle"]
  /\ tb_req = [c \in Callers |-> 0]
  /\ tb_wake = 0

InitSeen == seen = [s \in Sources |-> NoneSeen]

InitRun ==
  /\ InitFilter
  /\ InitSeen
  /\ InitBucket
  /\ InitAcquire
  /\ InitPool
  /\ InitScrape
  /\ InitModels
  /\ cpc = "init"
  /\ cur = 0
  /\ pc = [s \in Sources |-> "idle"]
  /\ semaphore = max_concurrent_sources
  /\ result = [s \in Sources |-> NoResult]
  /\ threw = [s \in Sources |-> "none"]
  /\ all_results = <<>>
  /\ total_new_articles = 0
  /\ todo = [s \in Sources |-> <<>>]
  /\ cnt = [s \in Sources |-> ZeroCount]
  /\ faults = [s \in Sources |-> 0]
  /\ pending = [s \in Sources |-> {}]
  /\ wlock = 0
  /\ rows = {}

Init ==
  /\ config \in Configs
  /\ max_concurrent_sources \in 1..MaxConcurrent
  /\ InitRun
  /\ InitCB
  /\ InitIdle

Next ==
  \/ StartRun
  \/ \E s \in Sources : BeginSource(s)
  \/ \E s \in Sources : ValidateReturn(s)
  \/ \E s \in Sources : ScrapeReturn(s)
  \/ \E s \in Sources : InsertArticle(s)
  \/ \E s \in Sources : Commit(s)
  \/ FinishTier
  \/ NextTier

\* one run over any configuration of sources
Spec == Init /\ [][Next]_vars

\* every task and the coordinator keep running (each adapter call and each
\* database statement terminates)
FairSpec == Spec /\ WF_vars(Next)

\* one run over the sources Writers with batches of up to MaxBatch articles
InitStore ==
  /\ config \in StoreConfigs
  /\ max_concurrent_sources = MaxConcurrent
  /\ InitRun
  /\ InitCB
  /\ InitIdle
SpecStore == InitStore /\ [][Next]_vars

\* concurrent callers of one CircuitBreaker
InitBreaker ==
  /\ config = [s \in Sources |-> DisabledSource]
  /\ max_concurrent_sources = MaxConcurrent
  /\ InitRun
  /\ InitCB
  /\ InitIdle

NextCB ==
  \/ \E c \in Callers : CallEnter(c)
  \/ \E c \in Callers : CallSuccess(c)
  \/ \E c \in Callers : CallFailure(c)
  \/ Tick

SpecCB == InitBreaker /\ [][NextCB]_vars

\* every call in flight completes, callers keep arriving and time passes
FairCB ==
  /\ SpecCB
  /\ WF_vars(Tick)
  /\ \A c \in Callers : WF_vars(CallSuccess(c) \/ CallFailure(c))
  /\ \A c \in Callers : WF_vars(CallEnter(c))

\* successive get_with_retry calls of one client
InitClient ==
  /\ config = [s \in Sources |-> DisabledSource]
  /\ max_concurrent_sources = MaxConcurrent
  /\ InitRun
  /\ InitCB
  /\ InitFetch
  /\ InitRate(10)

NextFetch ==
  \/ FetchBegin
  \/ SendRequest
  \/ SleepSecond
  \/ SleepReturn

SpecFetch == InitClient /\ [][NextFetch]_vars

\* every request is answered or times out, and time passes
FairFetch == SpecFetch /\ WF_vars(NextFetch)

\* one limiter of a scraper, for any rate_limit_seconds
InitLimiter ==
  /\ config = [s \in Sources |-> DisabledSource]
  /\ max_concurrent_sources = MaxConcurrent
  /\ InitRun
  /\ InitCB
  /\ InitFetch
  /\ \E rl \in RateLimitSeconds : InitRate(rl)

NextRate ==
  \/ record_success
  \/ \E is_rate_limit \in BOOLEAN : record_failure(is_rate_limit)
  \/ RateTick

SpecRate == InitLimiter /\ [][NextRate]_vars

\* the articles of two sources pass through one ContentFilter
NextFilter ==
  \E t \in FilterTasks : \E a \in FilterArticle : IsValidArticle(t, a)

SpecFilter == InitBreaker /\ [][NextFilter]_vars

\* concurrent operations on one AsyncNewsDatabase
NextPool ==
  \/ \E o \in Ops : OpCall(o)
  \/ \E o \in Ops : OpAcquire(o)
  \/ \E o \in Ops : OpConnect(o)
  \/ \E o \in Ops : OpEnd(o)

SpecPool == InitBreaker /\ [][NextPool]_vars

\* the validate and scrape steps of one RSS source over its client
NextScrape ==
  \/ NextFetch
  \/ ValidateSourceReturn
  \/ ScrapeArticlesReturn

SpecScrape == InitClient /\ [][NextScrape]_vars

\* enrich_article on any article
NextEnrich == \E a \in EnrichArticle : enrich_article(a)

SpecEnrich == InitBreaker /\ [][NextEnrich]_vars

\* NewsArticle objects built from any arguments
NextArticles == \E x \in ArticleArgs : \E y \in ArticleArgs : NewArticles(x, y)

SpecArticles == InitBreaker /\ [][NextArticles]_vars

\* tasks of one scraper calling acquire() on its limiter
NextAcquire ==
  \/ \E c \in Callers : AcquireCall(c)
  \/ \E c \in Callers : AcquireReturn(c)
  \/ Tick

SpecAcquire == InitBreaker /\ [][NextAcquire]_vars

\* tasks calling acquire on one TokenBucketRateLimiter
NextBucket ==
  \/ \E c \in Callers : \E n \in TokenRequests : BucketCall(c, n)
  \/ \E c \in Callers : BucketEnter(c)
  \/ \E c \in Callers : BucketWake(c)
  \/ Tick

SpecBucket == InitBreaker /\ [][NextBucket]_vars

\* The pipeline scenario: source 1 with batches of up to MaxBatch articles
\* in the first tier, source 2 with one article in the second.
PipeConfigs ==
  {c \in [Sources -> SourceConfig] :
     /\ c[1] = [name |-> 1, priority |-> 1, enabled |-> TRUE,
                max_articles_per_run |-> MaxBatch]
     /\ c[2] = [name |-> 2, priority |-> DefaultPriority, enabled |-> TRUE,
                max_articles_per_run |-> 1]
     /\ \A s \in Sources \ {1, 2} : c[s] = DisabledSource}

InitPipeline ==
  /\ config \in PipeConfigs
  /\ max_concurrent_sources = MaxConcurrent
  /\ InitRun
  /\ InitCB
  /\ InitIdle

\* one run in which the sources scrape, filter and save articles
NextPipeline ==
  \/ StartRun
  \/ \E s \in Sources : BeginSource(s)
  \/ \E s \in Sources : ValidateReturn(s)
  \/ \E s \in Sources : ScrapeAndFilter(s)
  \/ \E s \in Sources : InsertArticle(s)
  \/ \E s \in Sources : Commit(s)
  \/ FinishTier
  \/ NextTier

SpecPipeline == InitPipeline /\ [][NextPipeline]_vars

\* -----------------------------------------------------------------
\*                            Properties
\* -----------------------------------------------------------------

InPipeline == {s \in Sources : pc[s] \in {"validate", "scrape", "save"}}
Started(s) == pc[s] \in {"validate", "scrape", "save", "done"}
Counts(r) == <<r.new_articles, r.duplicates, r.errors>>
RowsBy(s) == {r \in rows : r.by = s}

\* C1: tiers run in ascending priority order, one after the other: a source
\* has begun its pipeline only if every enabled source of every
\* lower-numbered tier has finished (with a success or a failure result).
C1_TiersSequential ==
  \A s \in Enabled : \A t \in Enabled :
    (config[s].priority < config[t].priority /\ Started(t)) => pc[s] = "done"

\* a source of the second tier is inside its pipeline after a source of the
\* first tier finished with a failure
C1_Witness ==
  \E s \in Enabled : \E t \in Enabled :
    /\ config[s].priority < config[t].priority
    /\ pc[t] \in {"validate", "scrape", "save"}
    /\ pc[s] = "done" /\ ~result[s].success

\* C2: at every moment the number of sources inside their scrape-and-process
\* pipeline is at most max_concurrent_sources.
C2_ConcurrencyBound == Cardinality(InPipeline) <= max_concurrent_sources

\* the semaphore is exhausted and one more source of the tier waits for it
C2_Witness ==
  /\ Cardinality(InPipeline) = max_concurrent_sources
  /\ \E s \in Sources : pc[s] = "waiting"

\* C3: when the run has returned, every enabled source was processed and has
\* its own result and its entry in the result map, and a source whose
\* pipeline raised (at creation, validation, scraping, filtering or batch
\* persistence) has a result with success = false and new_articles = 0.
C3_FailureIsolation ==
  cpc = "done" =>
    \A s \in Enabled :
      /\ pc[s] = "done"
      /\ result[s] # NoResult
      /\ config[s].name \in DOMAIN all_results
      /\ threw[s] # "none" => ~result[s].success /\ result[s].new_articles = 0

\* the batch persistence of one source raised after it had inserted an
\* article, and another source of the same or a later tier succeeded
C3_Witness ==
  /\ cpc = "done"
  /\ \E s \in Enabled : \E t \in Enabled :
       /\ s # t
       /\ threw[s] = "save" /\ cnt[s].new > 0
       /\ config[s].priority <= config[t].priority
       /\ result[t].success /\ result[t].new_articles > 0

\* C4 (as claimed): the returned source_results map has exactly one entry
\* per enabled source.
C4_OneEntryPerSource ==
  cpc = "done" => Cardinality(DOMAIN all_results) = Cardinality(Enabled)

\* C5 (as claimed): the returned total_new_articles is the sum of
\* new_articles over the entries of the returned source_results map.
C5_TotalIsSum ==
  cpc = "done" => total_new_articles = SumNew(all_results, DOMAIN all_results)

\* C6: every run returns; with no enabled source it returns an empty result
\* map and total_new_articles = 0.
C6_RunCompletes ==
  /\ <>(cpc = "done")
  /\ [](cpc = "done" /\ Enabled = {} => all_results = <<>> /\ total_new_articles = 0)

\* the run returned although every source failed
C6_Witness ==
  /\ cpc = "done"
  /\ Cardinality(Enabled) >= 2
  /\ \A s \in Enabled : pc[s] = "done" /\ ~result[s].success

\* C7: table articles never holds two rows with the same id nor two rows
\* with the same url.
C7_UniqueRows ==
  \A r1 \in rows : \A r2 \in rows :
    (r1.id = r2.id \/ r1.url = r2.url) => r1 = r2

\* two sources are inside save_article_batch at once, one about to insert an
\* article that conflicts with a row the other has inserted and not yet
\* committed, while its own batch repeats an article
C7_Witness ==
  \E s \in Sources : \E t \in Sources :
    /\ s # t /\ pc[s] = "save" /\ pc[t] = "save"
    /\ pending[s] # {}
    /\ Len(todo[t]) = 2
    /\ Conflicts(todo[t][1], pending[s])
    /\ todo[t][1] = todo[t][2]

\* an iteration of the insert loop of s whose statements did not raise
CleanInsert(s) ==
  /\ pc[s] = "save" /\ todo[s] # <<>>
  /\ todo'[s] = Tail(todo[s])
  /\ faults'[s] = faults[s]

\* C8: an insert that conflicts (same id or same url) with a row persisted
\* by an earlier call is counted in duplicates, never in new or errors, and
\* adds no row; an insert without conflict is counted in new and adds its
\* row.  So a one-article batch that succeeds without any statement raising
\* returns new = 1 with its row persisted, or duplicates = 1 (new = 0,
\* errors = 0) with no row of its own.
C8_DedupOnWrite ==
  /\ [][\A s \in Sources :
          CleanInsert(s) =>
            LET a == Head(todo[s]) IN
              IF Conflicts(a, Visible(s))
                THEN /\ cnt'[s] = [cnt[s] EXCEPT !.dup = @ + 1]
                     /\ pending'[s] = pending[s]
                ELSE /\ cnt'[s] = [cnt[s] EXCEPT !.new = @ + 1]
                     /\ pending'[s] = pending[s] \cup {Row(a, s, TRUE)}]_vars
  /\ [](\A s \in Sources :
          (pc[s] = "done" /\ result[s].success /\ faults[s] = 0
             /\ result[s].new_articles + result[s].duplicates = 1) =>
            \/ Counts(result[s]) = <<1, 0, 0>> /\ Cardinality(RowsBy(s)) = 1
            \/ Counts(result[s]) = <<0, 1, 0>> /\ RowsBy(s) = {})

\* a source of the first tier saved an article (new = 1), then a source of
\* a later tier saved an article of the same id or url: duplicates = 1
C8_Witness ==
  \E s \in Enabled : \E t \in Enabled :
    /\ config[s].priority < config[t].priority
    /\ pc[s] = "done" /\ pc[t] = "done"
    /\ Counts(result[s]) = <<1, 0, 0>>
    /\ Counts(result[t]) = <<0, 1, 0>>
    /\ Cardinality(rows) = 1

\* C9 (as claimed): when a statement of a batch raised, no article of that
\* batch is persisted once save_article_batch has returned or raised.
C9_BatchRollsBack ==
  \A s \in Sources :
    (pc[s] = "done" /\ (faults[s] > 0 \/ threw[s] = "save")) => RowsBy(s) = {}

\* C10: while CLOSED the breaker has seen fewer than failure_threshold
\* failures since the last success (it is OPEN as soon as there are
\* failure_threshold of them); it goes from CLOSED to OPEN only on the
\* failure that makes them failure_threshold; a successful call resets
\* failure_count to zero.
C10_OpensAtThreshold ==
  /\ [](cb_state = "closed" => consec < failure_threshold)
  /\ [][(cb_state = "closed" /\ cb_state' = "open") =>
          consec' = failure_threshold]_vars
  /\ [][\A c \in Callers :
          (call_pc[c] = "inflight" /\ call_pc'[c] = "success") =>
            failure_count' = 0]_vars

\* the breaker is OPEN after exactly failure_threshold failures that
\* followed a successful call
C10_Witness ==
  /\ cb_state = "open"
  /\ consec = failure_threshold
  /\ \E c \in Callers : call_pc[c] = "success"

\* -----------------------------------------------------------------
\*                  Properties of the circuit breaker
\* -----------------------------------------------------------------

Inflight == {c \in Callers : call_pc[c] = "inflight"}
WithinTimeout == now - last_failure_time < recovery_timeout

\* C11: while the breaker is OPEN and less than recovery_timeout has passed
\* since the last recorded failure, a call that arrives raises the
\* circuit-open error: it never becomes an invocation of the wrapped
\* function, and it leaves the breaker OPEN.
C11_OpenFailsFast ==
  [][\A c \in Callers :
       (cb_state = "open" /\ WithinTimeout /\ call_pc[c] # "inflight") =>
         /\ call_pc'[c] \in {call_pc[c], "open_error"}
         /\ call_pc'[c] # call_pc[c] => cb_state' = "open"]_vars

\* a call was refused by the OPEN breaker before the timeout, with no call
\* in flight
C11_Witness ==
  /\ cb_state = "open"
  /\ WithinTimeout
  /\ Inflight = {}
  /\ \E c \in Callers : call_pc[c] = "open_error"

\* C12: the breaker leaves OPEN only for HALF_OPEN and only in a step that
\* admits a call arriving at least recovery_timeout after the most recent
\* recorded failure; a failure recorded while OPEN restarts that timer and
\* keeps the breaker OPEN.  The transition restarts the probe counter from
\* zero: whatever the counter was, it is 1 once the admitted call, the
\* first probe of the episode, has been counted.
C12_OpenToHalfOpen ==
  /\ [][(cb_state = "open" /\ cb_state' # "open") =>
          /\ cb_state' = "half_open"
          /\ last_failure_time # NoTime
          /\ now - last_failure_time >= recovery_timeout
          /\ half_open_calls' = 0 + 1
          /\ \E c \in Callers :
               call_pc[c] # "inflight" /\ call_pc'[c] = "inflight"]_vars
  /\ [][\A c \in Callers :
          (cb_state = "open" /\ call_pc[c] = "inflight"
             /\ call_pc'[c] = "failure") =>
            last_failure_time' = now /\ cb_state' = "open"]_vars

\* HALF_OPEN was entered by a call that came recovery_timeout after a
\* failure recorded while the breaker was already OPEN
C12_Witness ==
  /\ cb_state = "half_open"
  /\ half_open_calls = 1
  /\ Cardinality(Inflight) = 1
  /\ consec > failure_threshold
  /\ now - last_failure_time >= recovery_timeout

\* C13: in one HALF_OPEN episode at most half_open_max_calls calls are
\* admitted, under any interleaving: each admission raises the episode's
\* counter by one, the counter starts from zero, never decreases during the
\* episode and never exceeds half_open_max_calls; once it has reached the
\* limit, a call arriving while the breaker is HALF_OPEN is rejected.
C13_ProbeLimit ==
  /\ [](cb_state = "half_open" => half_open_calls <= half_open_max_calls)
  /\ [][\A c \in Callers :
          (call_pc[c] # "inflight" /\ call_pc'[c] = "inflight"
             /\ cb_state' = "half_open") =>
            half_open_calls' =
              (IF cb_state = "half_open" THEN half_open_calls ELSE 0) + 1]_vars
  /\ [][(cb_state = "half_open" /\ cb_state' = "half_open") =>
          half_open_calls' >= half_open_calls]_vars
  /\ [][\A c \in Callers :
          (cb_state = "half_open" /\ half_open_calls >= half_open_max_calls
             /\ call_pc[c] # "inflight") =>
            call_pc'[c] \in {call_pc[c], "limit_error"}]_vars

\* all the probes of an episode are in flight and a further call was
\* rejected
C13_Witness ==
  /\ cb_state = "half_open"
  /\ half_open_calls = half_open_max_calls
  /\ Cardinality(Inflight) = half_open_max_calls
  /\ \E c \in Callers : call_pc[c] = "limit_error"

\* C14: a wrapped call that fails while the breaker is HALF_OPEN puts the
\* breaker back to OPEN and sets last_failure_time to the current time.
C14_HalfOpenFailureReopens ==
  [][\A c \in Callers :
       (cb_state = "half_open" /\ call_pc[c] = "inflight"
          /\ call_pc'[c] = "failure") =>
         cb_state' = "open" /\ last_failure_time' = now]_vars

\* C15: a wrapped call that succeeds while the breaker is HALF_OPEN sets it
\* to CLOSED with failure_count 0; while CLOSED every arriving call is
\* admitted, whatever the probe counter.
C15_HalfOpenSuccessCloses ==
  /\ [][\A c \in Callers :
          (cb_state = "half_open" /\ call_pc[c] = "inflight"
             /\ call_pc'[c] = "success") =>
            cb_state' = "closed" /\ failure_count' = 0]_vars
  /\ [][\A c \in Callers :
          (cb_state = "closed" /\ call_pc[c] # "inflight"
             /\ call_pc'[c] # call_pc[c]) =>
            call_pc'[c] = "inflight" /\ cb_state' = "closed"]_vars

\* a probe closed the breaker after all probes had been admitted, and more
\* calls than the probe limit are in flight
C15_Witness ==
  /\ cb_state = "closed"
  /\ half_open_calls = half_open_max_calls
  /\ Cardinality(Inflight) > half_open_max_calls

\* -----------------------------------------------------------------
\*                   Properties of get_with_retry
\* -----------------------------------------------------------------

\* C16: a get_with_retry that uses up all its attempts is recorded by the
\* breaker as a failure, so after failure_threshold consecutive such fetches
\* the breaker is OPEN.
C16_ExhaustedFetchIsFailure ==
  /\ [][exhausted' > exhausted => failure_count' = failure_count + 1]_vars
  /\ [](exhausted >= failure_threshold => cb_state = "open")

\* C17: one get_with_retry issues at most max_retries + 1 requests and then
\* ends; the attempt after a 429 response is not sent before the time its
\* Retry-After asked for has passed.
C17_BoundedAttempts ==
  /\ [](requests <= max_retries + 1)
  /\ [][(requests' = requests + 1 /\ last_status = "429") =>
          slept >= retry_after]_vars
  /\ (fpc = "request") ~> (fpc = "returned")

\* C18: a 4xx response other than 429 ends the fetch: get_with_retry returns
\* None to its caller without raising, sleeps no delay and sends no further
\* request.
C18_ClientErrorTerminal ==
  /\ [][(requests' = requests + 1 /\ last_status' = "4xx") =>
          /\ fpc' = "returned"
          /\ fret' = "None"
          /\ delay' = 0
          /\ call_pc'[Fetcher] = "success"]_vars
  /\ [](last_status = "4xx" =>
          fpc = "returned" /\ fret = "None" /\ delay = 0 /\ slept = 0)

\* the second request of a fetch got a 4xx while an attempt was left
C18_Witness ==
  /\ last_status = "4xx"
  /\ fpc = "returned"
  /\ requests = 2
  /\ attempt < max_retries

\* -----------------------------------------------------------------
\*                 Properties of AdaptiveRateLimiter
\* -----------------------------------------------------------------

\* C19: current_rate is within [min_rate, max_rate] in every reachable
\* state of a limiter built by BaseAsyncScraper.
C19_RateWithinBounds == min_rate <= current_rate /\ current_rate <= max_rate

\* C20: when record_failure(is_rate_limit=True) returns, current_rate is
\* max(min_rate, 0.5 * the rate before the call).
C20_RateLimitHalves ==
  [][rl_op' = "rate_limit" =>
       current_rate' = Max({min_rate, Times(current_rate, 50)})]_vars

\* C21: the periodic adjustment made at the end of a record_success or
\* record_failure call fires only if adjustment_interval has elapsed since
\* last_adjustment and at least 10 samples are counted; it then sets the
\* rate to 1.2 times the rate (at most max_rate) if more than 95% of the
\* samples are successes, to 0.8 times the rate (at least min_rate) if fewer
\* than 80% are, and keeps it otherwise, and it zeroes both counters and
\* restarts the interval; if it does not fire, the rate, the counters and
\* last_adjustment stay as the call left them.
C21_PeriodicAdjustment ==
  [][rl_op' \in {"success", "failure", "rate_limit"} =>
       LET sc == success_count + (IF rl_op' = "success" THEN 1 ELSE 0)
           fc == rl_failure_count + (IF rl_op' = "success" THEN 0 ELSE 1)
           r  == IF rl_op' = "rate_limit"
                   THEN (IF current_rate \div 2 < min_rate
                           THEN min_rate ELSE current_rate \div 2)
                   ELSE current_rate
           up   == IF (6 * r) \div 5 > max_rate THEN max_rate ELSE (6 * r) \div 5
           down == IF (4 * r) \div 5 < min_rate THEN min_rate ELSE (4 * r) \div 5
       IN  IF since_adjustment >= 60 /\ sc + fc >= 10
             THEN /\ current_rate' = IF 20 * sc > 19 * (sc + fc) THEN up
                                     ELSE IF 5 * sc < 4 * (sc + fc) THEN down
                                     ELSE r
                  /\ success_count' = 0
                  /\ rl_failure_count' = 0
                  /\ since_adjustment' = 0
             ELSE /\ current_rate' = r
                  /\ success_count' = sc
                  /\ rl_failure_count' = fc
                  /\ since_adjustment' = since_adjustment]_vars

\* a record_success call has just raised the default rate of 1.0 to 1.2
C21_Witness ==
  /\ rl_op = "success"
  /\ rate_limit_seconds = 10
  /\ current_rate = 120
  /\ success_count = 0
  /\ rl_failure_count = 0
  /\ since_adjustment = 0

\* -----------------------------------------------------------------
\*                   Properties of ContentFilter
\* -----------------------------------------------------------------

\* an is_valid_article call is made in this step
FilterCall == fl_last' # NoCall /\ fl_last' # fl_last

\* C22: is_valid_article rejects an article whose content hash is in the
\* cache; an article it accepts has its hash in the cache when the call
\* returns; so the same valid article submitted again right after being
\* accepted is rejected.
C22_DuplicateRejected ==
  /\ [][(FilterCall /\ fl_last'.hash \in recent_hashes) =>
          ~fl_last'.verdict]_vars
  /\ [](fl_last.verdict => fl_last.hash \in recent_hashes)
  /\ [][(FilterCall /\ fl_last.verdict /\ fl_last'.hash = fl_last.hash) =>
          ~fl_last'.verdict]_vars

\* C23: the recent-hash cache never holds more than hash_cache_size hashes.
C23_CacheBounded == Cardinality(recent_hashes) <= hash_cache_size

\* the cache has just been cut down: it holds KeepCount hashes, and the
\* hash accepted last is not one of them
C23_Witness ==
  /\ fl_last.verdict
  /\ fl_last.hash \notin recent_hashes
  /\ Cardinality(recent_hashes) = KeepCount

\* C27: for an article that passes every other check, a content length of
\* exactly min_content_length or exactly max_content_length is accepted,
\* and a length one below the minimum or one above the maximum is rejected.
C27_LengthBoundary ==
  [][(FilterCall /\ fl_last'.fields_ok /\ fl_last'.hash \notin recent_hashes) =>
       /\ fl_last'.content_length = min_content_length => fl_last'.verdict
       /\ fl_last'.content_length = max_content_length => fl_last'.verdict
       /\ fl_last'.content_length = min_content_length - 1 => ~fl_last'.verdict
       /\ fl_last'.content_length = max_content_length + 1 => ~fl_last'.verdict
    ]_vars

\* an article whose content is exactly min_content_length long was accepted
C27_Witness ==
  /\ fl_last.verdict
  /\ fl_last.content_length = min_content_length

\* C30: when two sources filtered in the same tier submit articles with the
\* same content hash one after the other, at most one of the two is
\* accepted.
C30_OneAcceptedPerHash ==
  [][(FilterCall /\ fl_last'.by # fl_last.by /\ fl_last.by \in FilterTasks
        /\ fl_last'.hash = fl_last.hash) =>
       ~(fl_last.verdict /\ fl_last'.verdict)]_vars

\* C25: the article store is append-only under save_article_batch: a row
\* that is in the table stays in it, with the same fields, whatever article
\* with the same id or url is submitted afterwards
C25_AppendOnly == [][rows \subseteq rows']_vars

\* a writer whose batch committed without storing anything of its own, one
\* article of it having been ignored against the row of another writer
C25_Witness ==
  \E s \in Sources :
    /\ pc[s] = "done"
    /\ result[s].success
    /\ result[s].duplicates >= 1
    /\ {r \in rows : r.by = s} = {}
    /\ \E r \in rows : r.by # s

\* C24: a source whose scrape step got no content from its fetch (retries
\* used up, no body, or an exception) after a successful validation is
\* reported with a failed result
C24_ScrapeFailureReported ==
  scrape_fetch \in {"None", "raised"} =>
    /\ src_result # NoResult
    /\ ~src_result.success

\* C26: at most max_connections connections are open at once, an operation
\* gets its permit only when one is free, and the operations that hold a
\* permit or a connection are exactly those inside get_connection
C26_PoolBounded ==
  /\ Cardinality(open_conns) <= max_connections
  /\ connection_semaphore >= 0
  /\ connection_semaphore
       + Cardinality({o \in Ops : op_pc[o] \in {"connecting", "open"}})
       = max_connections
  /\ \A o \in Ops : o \in open_conns <=> op_pc[o] = "open"

\* the pool is used up and a further operation waits
C26_Witness ==
  /\ Cardinality(open_conns) = max_connections
  /\ connection_semaphore = 0
  /\ \E o \in Ops : op_pc[o] = "waiting"

\* C28: the article returned by enrich_article has a relevance_score
\* within [0, 10], whatever article it was given
C28_ScoreInRange ==
  en_last.called =>
    /\ en_last.relevance_score.scored
    /\ 0 <= en_last.relevance_score.value
    /\ en_last.relevance_score.value <= 1000

C31_TrimKeepsLatest ==
  [][(/\ FilterCall
      /\ fl_last'.verdict
      /\ Overflows(Cardinality(recent_hashes \cup {fl_last'.hash})))
       => fl_last'.hash \in recent_hashes']_vars

\* new_count + duplicate_count + error_count of a batch
Counted(c) == c.new + c.dup + c.err

\* C34: save_article_batch counts each article of the batch in exactly one
\* of new, duplicates and errors: handling one article raises the sum of
\* the three counters by one, so the sum of the result equals the number
\* of articles submitted.
C34_CountsPartitionBatch ==
  [][\A s \in Sources :
       (pc[s] = "save" /\ todo[s] # <<>> /\ todo'[s] = Tail(todo[s]))
         => Counted(cnt'[s]) = Counted(cnt[s]) + 1]_vars

\* C35: with distinct source names and this run as the only writer, the
\* total_new_articles of a finished run is the number of rows the run added
\* to table articles (the table is empty when the run starts).
C35_TotalIsRowsAdded ==
  cpc = "done" => total_new_articles = Cardinality(rows)

\* a finished run in which a source stored nothing of its own, one insert
\* of it having been ignored against a row of the other source of its tier
C35_Witness ==
  /\ cpc = "done"
  /\ rows # {}
  /\ \E s \in Sources :
       /\ result[s].success /\ result[s].duplicates >= 1
       /\ RowsBy(s) = {}
       /\ \E t \in Sources : t # s /\ config[t].priority = config[s].priority
                             /\ RowsBy(t) # {}

\* C33: the breaker does not stay HALF_OPEN forever: when every call in
\* flight completes, a HALF_OPEN breaker eventually is CLOSED or OPEN.
C33_LeavesHalfOpen == (cb_state = "half_open") ~> (cb_state # "half_open")

\* C37: the article enrich_article returns has the identifying fields of
\* the article it was given; a relevance_score that was set is returned
\* unchanged, and one is computed only for an article that had none.
C37_EnrichKeepsIdentity ==
  en_last.called =>
    /\ en_last.returned.id = en_last.article.id
    /\ \A f \in {"keyword_matches", "title_matches", "text_length", "age_hours"} :
         en_last.returned[f] = en_last.article[f]
    /\ en_last.article.relevance_score # Unscored =>
         en_last.returned.relevance_score = en_last.article.relevance_score
    /\ en_last.article.relevance_score = Unscored =>
         en_last.returned.relevance_score =
           Score(_calculate_relevance_score(en_last.article))

\* an article that came with a score outside [0, 10] was enriched
C37_Witness ==
  /\ en_last.called
  /\ en_last.article.relevance_score # Unscored
  /\ en_last.article.relevance_score.value > 1000
  /\ en_last.returned.relevance_score = en_last.article.relevance_score

\* C38: between any two returns of acquire() on one limiter at least
\* 1/current_rate seconds pass, also when tasks call it concurrently.
C38_AcquirePaces ==
  acq_gap # NoGap => acq_gap >= AcquireDelay(current_rate)

\* C39: the token count of a TokenBucketRateLimiter is within
\* [0, max_tokens] in every state; an acquire that finds enough tokens
\* after the refill returns at once; the callers are served one at a time:
\* a caller gets in only while no other is inside, waiting for its tokens.
C39_TokensWithinBounds ==
  /\ [](0 <= tokens /\ tokens <= max_tokens)
  /\ [](/\ Cardinality({c \in Callers : tb_pc[c] = "sleeping"}) <= 1
        /\ \A c \in Callers : tb_pc[c] = "sleeping" <=> tb_lock = c)
  /\ [][\A c \in Callers :
          (tb_pc[c] = "queued" /\ tb_pc'[c] # "queued") =>
            /\ tb_lock = 0
            /\ Refilled(tokens, now - last_refill) >= tb_req[c] =>
                 (tb_pc'[c] = "returned" /\ now' = now)]_vars

\* a burst has emptied the bucket, a caller sleeps for its tokens with the
\* lock held and another caller waits for the lock
C39_Witness ==
  /\ tokens = 0
  /\ \E c \in Callers : \E d \in Callers :
       /\ tb_pc[c] = "sleeping"
       /\ tb_pc[d] = "queued"
       /\ tb_req[d] > 0

\* C32: when a source's pipeline has finished, every hash it added to the
\* recent-hash cache (and that is still there) is the hash of an article in
\* the store; a failed write leaves no hash of an unsaved article behind.
C32_CacheMatchesStore ==
  \A s \in Sources :
    pc[s] = "done" =>
      \A h \in seen[s].added \cap recent_hashes : \E r \in rows : r.id = h

Range(q) == {q[i] : i \in DOMAIN q}

\* C36: the steps of a source's pipeline run in order and are gated:
\* scrape_articles starts only from a validate_source that returned true,
\* which starts only once the adapter exists; only articles not older than
\* hours_back are given to is_valid_article; save_article_batch gets
\* exactly the articles is_valid_article accepted.
C36_StepsGated ==
  /\ [][\A s \in Sources :
          /\ (pc'[s] = "validate" /\ pc[s] # "validate") => pc[s] = "waiting"
          /\ (pc'[s] = "scrape" /\ pc[s] # "scrape") => pc[s] = "validate"
          /\ (pc'[s] = "save" /\ pc[s] # "save") =>
               (pc[s] = "scrape" /\ todo'[s] = seen'[s].batch)]_vars
  /\ [](\A s \in Sources :
          /\ \A a \in Range(seen[s].checked) : a.age_hours <= hours_back
          /\ \A a \in Range(seen[s].batch) :
               /\ a \in Range(seen[s].checked)
               /\ a.fields_ok
               /\ _validate_content_length(a.content_length))

\* a batch is being saved that is shorter than what was scraped, an article
\* older than hours_back having been left out before the content filter
C36_Witness ==
  \E s \in Sources :
    /\ pc[s] = "save"
    /\ seen[s].batch # <<>>
    /\ \E a \in Range(seen[s].raw) : a.age_hours > hours_back
    /\ Len(seen[s].checked) < Len(seen[s].raw)

====
